---- MODULE Spec2Model ----
(***************************************************************************)
(* Model of m3f_matlab/mex/m3f_tib_sampleOffsets.c: the Gibbs update of    *)
(* the c (user) and d (item) offset matrices.  mexFunction calls           *)
(* sampleOffsets twice with the user/item roles swapped; sampleOffsets     *)
(* runs an OpenMP parallel loop over the primary entities.                 *)
(*                                                                         *)
(* Doubles are modelled exactly.  A value is  m + SUM_n g[n] * sigma_n     *)
(* where m and the g[n] are rationals and sigma_n stands for the standard  *)
(* deviation sqrt(1/(invSigmaSqd0 + n*invSigmaSqd)) passed to              *)
(* gsl_ran_gaussian when the topic count is n.  All the arithmetic of the  *)
(* program is linear in these terms.                                       *)
(***************************************************************************)
EXTENDS Integers, Sequences, FiniteSets, TLC

\* ------------------------------------------------------------------ bounds
NumUsers    == 2      \* model.numUsers
NumItems    == 2      \* model.numItems
MaxK        == 2      \* largest topic count KU, KM
NumExamples == 2      \* number of interactions (ratings)
NumThreads  == 2      \* size of the OpenMP team (MAX_NUM_THREADS)

Threads  == 0 .. (NumThreads - 1)
Examples == 1 .. NumExamples

\* ------------------------------------------------------- exact arithmetic
Abs(x) == IF x < 0 THEN -x ELSE x

RECURSIVE Gcd(_, _)
Gcd(a, b) == IF b = 0 THEN a ELSE Gcd(b, a % b)

\* the rational n/d in lowest terms with a positive denominator (d # 0)
Rat(n, d) ==
  LET g == Gcd(Abs(n), Abs(d))
      s == IF d < 0 THEN -1 ELSE 1
  IN  << (s * n) \div g, (s * d) \div g >>

RInt(n)    == << n, 1 >>
RAdd(x, y) == Rat(x[1] * y[2] + y[1] * x[2], x[2] * y[2])
RSub(x, y) == Rat(x[1] * y[2] - y[1] * x[2], x[2] * y[2])
RMul(x, y) == Rat(x[1] * y[1], x[2] * y[2])
RDiv(x, y) == Rat(x[1] * y[2], x[2] * y[1])
RZero      == RInt(0)
ROne       == RInt(1)

\* A double: m + SUM_{n \in DOMAIN g} g[n] * sigma_n, no zero coefficient kept.
Val(m)     == [m |-> m, g |-> << >>]
VInt(n)    == Val(RInt(n))
Coef(v, n) == IF n \in DOMAIN v.g THEN v.g[n] ELSE RZero
Trim(m, f) == [m |-> m, g |-> [n \in {k \in DOMAIN f : f[k] # RZero} |-> f[n]]]
VAdd(x, y) ==
  Trim(RAdd(x.m, y.m),
       [n \in DOMAIN x.g \cup DOMAIN y.g |-> RAdd(Coef(x, n), Coef(y, n))])
VSub(x, y) ==
  Trim(RSub(x.m, y.m),
       [n \in DOMAIN x.g \cup DOMAIN y.g |-> RSub(Coef(x, n), Coef(y, n))])
VScale(r, x) == Trim(RMul(r, x.m), [n \in DOMAIN x.g |-> RMul(r, x.g[n])])

\* ------------------------------------------------------------------ state
VARIABLES
  data,        \* data.users, data.items: entity ids of each example (one-based)
  model,       \* KU, KM, sigmaSqd, sigmaSqd0, c0, d0
  samp,        \* samp.c (KM x numUsers) and samp.d (KU x numItems), flat, zero-based
  zU, zM,      \* sampled user / item topic of each example (one-based)
  resids,      \* residual of each example
  sampParams,  \* << >> when nrhs <= 6, else << sampUserParams, sampItemParams >>
  pc,          \* position of mexFunction
  thr,         \* per thread: its position in the loop body, u and j
  started,     \* loop iterations u already handed to a thread
  counts,      \* counts[thread]: the per-thread topic counts
  rngs,        \* rngs[thread]: number of deviates drawn from the generator
  seeds,       \* seed of each generator
  entry,       \* history: samp on entry to mexFunction
  calls,       \* history: number of sampleOffsets calls per offset matrix
  log,         \* history: memory accesses of the running parallel loop
  touched,     \* history: << phase, array, kind >> of every access of the run
  sched,       \* history: per phase and thread, the iterations it ran, in order
  oob,         \* history: an access fell outside the offset matrix it indexes
  sampled,     \* history: per phase and row, how often the sampling loop wrote it
  run,         \* 1 during the first invocation, 2 during a repeated one
  prev         \* history: samp and sched at the end of the first invocation

vars == << data, model, samp, zU, zM, resids, sampParams, pc, thr, started,
           counts, rngs, seeds, entry, calls, log, touched, sched, oob, sampled,
           run, prev >>

inputs == << data, model, zU, zM, resids, sampParams, seeds, entry >>

\* ------------------------------------------------------- inputs of a call
Phases == {"c", "d"}

\* The phase whose parallel loop mexFunction is in ("c": users are primary).
Phase == IF pc \in {"sample_c", "loop_c"} THEN "c" ELSE "d"
InLoop == pc \in {"loop_c", "loop_d"}

\* Parameter binding of the two calls of sampleOffsets, under the callee's
\* parameter names; c and d name the field of samp each pointer refers to.
Args(ph) ==
  IF ph = "c"
  THEN [users |-> data.users, items |-> data.items, KU |-> model.KU,
        KM |-> model.KM, numUsers |-> NumUsers, c0 |-> model.c0,
        c |-> "c", d |-> "d", zU |-> zU, zM |-> zM]
  ELSE [users |-> data.items, items |-> data.users, KU |-> model.KM,
        KM |-> model.KU, numUsers |-> NumItems, c0 |-> model.d0,
        c |-> "d", d |-> "c", zU |-> zM, zM |-> zU]

invSigmaSqd  == RDiv(ROne, model.sigmaSqd)
invSigmaSqd0 == RDiv(ROne, model.sigmaSqd0)

\* data.exampsByUser / data.exampsByItem: the examples of entity u (zero-based),
\* as one-based example numbers in increasing order.
exampsBy(ids, u) ==
  SelectSeq([e \in Examples |-> e], LAMBDA e : ids[e] = u + 1)

\* The k-th standard Gaussian deviate of a generator; seed 0 is the generator
\* whose deviates are all 0.
Deviate(seed, k) == IF seed = 0 THEN 0 ELSE ((seed + k) % 3) - 1

\* gsl_ran_gaussian(r, sqrt(variance)) for the variance of topic count n:
\* the deviate z scaled by sigma_n.
GslRanGaussian(z, n) == Trim(RZero, (n :> RInt(z)))

\* (variants: one counts buffer, one generator, shared by the team)
ThreadNumShared(t) == 0
RngNumShared(t)    == 0

\* Line 89: thread = omp_get_thread_num(), the index into counts.
ThreadNum(t) == t
\* Line 115: rngs[omp_get_thread_num()].
RngNum(t)    == t

\* Row u of an offset matrix with K columns: the flat indices cPtr[0..K-1].
Row(u, K) == { u * K + i : i \in 0 .. (K - 1) }

\* Line 105: what a read of d past the end of the matrix may return.
Garbage == { VInt(0), VInt(7) }
\* Line 85: the content of counts[thread] as mxMalloc returns it (never read
\* before line 95 overwrites it).
Poison  == -1

\* ----------------------------------------------------------- mexFunction
\* (variant: the user-side call is gated by the user-side topic count)
SampleUserGateOwnCount ==
  (model.KU > 0) /\ ((sampParams = << >>) \/ sampParams[1])
\* (variant: the flags are not consulted)
SampleUserGateNoFlag == model.KM > 0

\* Line 159: the condition of the user-side call.
SampleUserGate ==
  (model.KM > 0) /\ ((sampParams = << >>) \/ sampParams[1])
\* Line 166: the condition of the item-side call.
SampleItemGate ==
  (model.KU > 0) /\ ((sampParams = << >>) \/ sampParams[2])

\* Entry of sampleOffsets: counts[thread] = mxMalloc(...) for every thread.
Enter(ph, loop) ==
  /\ pc' = loop
  /\ counts' = [t \in Threads |-> [i \in 0 .. (Args(ph).KM - 1) |-> Poison]]
  /\ calls' = [calls EXCEPT ![ph] = @ + 1]
  /\ started' = {}
  /\ UNCHANGED << samp, thr, rngs, log, touched, sched, oob, sampled >>

Skip(next) ==
  /\ pc' = next
  /\ UNCHANGED << samp, thr, started, counts, rngs, calls, log, touched, sched, oob,
                  sampled >>

SampleC ==
  /\ pc = "sample_c"
  /\ IF SampleUserGate THEN Enter("c", "loop_c") ELSE Skip("sample_d")
  /\ UNCHANGED << inputs, run, prev >>

SampleD ==
  /\ pc = "sample_d"
  /\ IF SampleItemGate THEN Enter("d", "loop_d") ELSE Skip("done")
  /\ UNCHANGED << inputs, run, prev >>

\* --------------------------------------------------------- sampleOffsets
Acc(t, u, arr, slot, idx, kind) ==
  [th |-> t, u |-> u, arr |-> arr, slot |-> slot, idx |-> idx, kind |-> kind]

Touch(ph, recs) == { << ph, r.arr, r.kind >> : r \in recs }

\* (variant: the counts of the previous entity are kept)
FillArrayIKept(buf, K) == buf

\* Line 95: fillArrayI(counts[thread], KM, 0).
FillArrayI(buf, K) == [i \in 0 .. (K - 1) |-> 0]

\* Lines 88-95: a thread takes iteration u, zeroes row u and its counts.
Begin(t) ==
  /\ InLoop
  /\ thr[t].pc = "idle"
  /\ \E u \in (0 .. (Args(Phase).numUsers - 1)) \ started :
       LET a  == Args(Phase)
           th == ThreadNum(t)
           ws == { Acc(t, u, a.c, 0, k, "w") : k \in Row(u, a.KM) }
                 \cup { Acc(t, u, "counts", th, i, "w") : i \in 0 .. (a.KM - 1) }
       IN  /\ started' = started \cup {u}
           /\ samp' = [samp EXCEPT ![a.c] =
                         [k \in DOMAIN @ |-> IF k \in Row(u, a.KM) THEN VInt(0) ELSE @[k]]]
           /\ counts' = [counts EXCEPT ![th] = FillArrayI(@, a.KM)]
           /\ thr' = [thr EXCEPT ![t] = [pc |-> "accum", u |-> u, j |-> 0]]
           /\ log' = log \cup ws
           /\ touched' = touched \cup Touch(Phase, ws)
           /\ sched' = [sched EXCEPT ![Phase][t] = Append(@, u)]
  /\ UNCHANGED << inputs, pc, rngs, calls, oob, sampled, run, prev >>

\* (variant: the bucket is the primary side's own topic)
BucketIndexSameSide(a, e) == a.zU[e] - 1

\* Line 102: the topic bucket of example e.
BucketIndex(a, e) == a.zM[e] - 1

\* Line 105: the index of the secondary offset subtracted for example e.
SecondaryIndex(a, e) == (a.items[e] - 1) * a.KU + (a.zU[e] - 1)

\* (variant: the secondary offset is subtracted unconditionally)
SubtractsAlways(a) == TRUE

\* Line 104: whether a secondary offset is subtracted.
Subtracts(a) == a.KU > 0

\* (variant: the secondary offsets as they were when mexFunction was entered)
SecondaryOffsetsOnEntry(a) == entry[a.d]

\* Line 105: the secondary offsets the loop reads.
SecondaryOffsets(a) == samp[a.d]

\* Lines 100-109: one iteration of the loop over the examples of u.
Accum(t) ==
  /\ InLoop
  /\ thr[t].pc = "accum"
  /\ LET a      == Args(Phase)
         u      == thr[t].u
         examps == exampsBy(a.users, u)
         th     == ThreadNum(t)
     IN  /\ thr[t].j < Len(examps)
         /\ LET e   == examps[thr[t].j + 1]
                i   == BucketIndex(a, e)
                k   == u * a.KM + i
                si  == SecondaryIndex(a, e)
                sec == SecondaryOffsets(a)
                rs  == (IF Subtracts(a) THEN { Acc(t, u, a.d, 0, si, "r") } ELSE {})
                       \cup { Acc(t, u, a.c, 0, k, "r"), Acc(t, u, a.c, 0, k, "w"),
                              Acc(t, u, "counts", th, i, "r"),
                              Acc(t, u, "counts", th, i, "w") }
            IN  \E dv \in (IF ~Subtracts(a) THEN { VInt(0) }
                           ELSE IF si \in DOMAIN sec THEN { sec[si] } ELSE Garbage) :
                  LET contribution ==
                        IF Subtracts(a) THEN VSub(Val(resids[e]), dv) ELSE Val(resids[e])
                  IN  /\ samp' = IF k \in DOMAIN samp[a.c]
                                 THEN [samp EXCEPT ![a.c][k] = VAdd(@, contribution)]
                                 ELSE samp
                      /\ counts' = IF i \in DOMAIN counts[th]
                                   THEN [counts EXCEPT ![th][i] = @ + 1]
                                   ELSE counts
                      /\ oob' = (oob \/ k \notin DOMAIN samp[a.c]
                                     \/ (Subtracts(a) /\ si \notin DOMAIN sec))
                      /\ log' = log \cup rs
                      /\ touched' = touched \cup Touch(Phase, rs)
         /\ thr' = [thr EXCEPT ![t].j = @ + 1]
  /\ UNCHANGED << inputs, pc, started, rngs, calls, sched, sampled, run, prev >>

\* (variant: the observation variance is used where its inverse belongs)
VarianceNotInverted(n) ==
  RDiv(ROne, RAdd(invSigmaSqd0, RMul(RInt(n), model.sigmaSqd)))

\* Line 113: the posterior variance of a topic with count n.
Variance(n) == RDiv(ROne, RAdd(invSigmaSqd0, RMul(RInt(n), invSigmaSqd)))

\* Lines 80, 114-115: the new offset from the sufficient statistics and deviate z.
NewOffset(c0, sum, n, z) ==
  LET ratio == RMul(c0, invSigmaSqd0)
  IN  VAdd(VScale(Variance(n), VAdd(Val(ratio), VScale(invSigmaSqd, sum))),
           GslRanGaussian(z, n))

\* Lines 112-116: the sampling loop over the topics of row u.
Sample(t) ==
  /\ InLoop
  /\ thr[t].pc = "accum"
  /\ LET a   == Args(Phase)
         u   == thr[t].u
         th  == ThreadNum(t)
         g   == RngNum(t)
         rs  == { Acc(t, u, a.c, 0, k, kind) : k \in Row(u, a.KM), kind \in {"r", "w"} }
                \cup { Acc(t, u, "counts", th, i, "r") : i \in 0 .. (a.KM - 1) }
                \cup { Acc(t, u, "rngs", g, 0, "w") }
     IN  /\ thr[t].j >= Len(exampsBy(a.users, u))
         /\ samp' = [samp EXCEPT ![a.c] =
               [k \in DOMAIN @ |->
                  IF k \in Row(u, a.KM)
                  THEN LET i == k - u * a.KM
                       IN  NewOffset(a.c0, @[k], counts[th][i],
                                     Deviate(seeds[g], rngs[g] + i))
                  ELSE @[k]]]
         /\ rngs' = [rngs EXCEPT ![g] = @ + a.KM]
         /\ thr' = [thr EXCEPT ![t] = [pc |-> "idle", u |-> u, j |-> 0]]
         /\ log' = log \cup rs
         /\ touched' = touched \cup Touch(Phase, rs)
         /\ sampled' = [sampled EXCEPT ![Phase][u] = @ + 1]
  /\ UNCHANGED << inputs, pc, started, counts, calls, sched, oob, run, prev >>

\* Lines 117-123: the end of the parallel region and the clean up.
Return ==
  /\ InLoop
  /\ started = 0 .. (Args(Phase).numUsers - 1)
  /\ \A t \in Threads : thr[t].pc = "idle"
  /\ pc' = IF pc = "loop_c" THEN "sample_d" ELSE "done"
  /\ counts' = [t \in Threads |-> << >>]
  /\ log' = {}
  /\ UNCHANGED << inputs, samp, thr, started, rngs, calls, touched, sched, oob,
                  sampled, run, prev >>

\* ------------------------------------------------------------- the inputs
Bool == {TRUE, FALSE}
Topics(K)  == IF K = 0 THEN {1} ELSE 1 .. K
Hypers == { [sigmaSqd |-> Rat(1, 2), sigmaSqd0 |-> Rat(1, 3), c0 |-> RInt(2), d0 |-> RInt(-1)] }
Models == { [KU |-> ku, KM |-> km, sigmaSqd |-> h.sigmaSqd, sigmaSqd0 |-> h.sigmaSqd0,
             c0 |-> h.c0, d0 |-> h.d0] : ku \in 0 .. MaxK, km \in 0 .. MaxK, h \in Hypers }
Flags  == { << >> } \cup { << x, y >> : x \in Bool, y \in Bool }
Seedings == { [t \in Threads |-> 0], [t \in Threads |-> t + 1] }
Resids == [e \in Examples |-> RInt(3 * e - 1)]

\* The offsets on entry: pairwise distinct values.
EntrySamp(m) ==
  [c |-> [k \in 0 .. (NumUsers * m.KM - 1) |-> VInt(k + 2)],
   d |-> [k \in 0 .. (NumItems * m.KU - 1) |-> VInt(-(k + 2))]]

EmptySched == [ph \in Phases |-> [t \in Threads |-> << >>]]
NoneSampled ==
  [ph \in Phases |-> [u \in 0 .. ((IF ph = "c" THEN NumUsers ELSE NumItems) - 1) |-> 0]]

InitWith(m, dt, zu, zm, fl, sd) ==
  /\ model = m /\ data = dt /\ zU = zu /\ zM = zm
  /\ resids = Resids
  /\ sampParams = fl
  /\ seeds = sd
  /\ samp = EntrySamp(m) /\ entry = EntrySamp(m)
  /\ pc = "sample_c"
  /\ thr = [t \in Threads |-> [pc |-> "idle", u |-> 0, j |-> 0]]
  /\ started = {}
  /\ counts = [t \in Threads |-> << >>]
  /\ rngs = [t \in Threads |-> 0]
  /\ calls = [ph \in Phases |-> 0]
  /\ log = {} /\ touched = {} /\ sched = EmptySched /\ oob = FALSE
  /\ sampled = NoneSampled
  /\ run = 1 /\ prev = [samp |-> EntrySamp(m), sched |-> EmptySched]

Datas == [users : [Examples -> 1 .. NumUsers], items : [Examples -> 1 .. NumItems]]

\* Every flags argument with the deviates fixed to 0; seeded generators with
\* the flags absent.
Init ==
  \E m \in Models, dt \in Datas, fl \in Flags, sd \in Seedings :
    \E zu \in [Examples -> Topics(m.KU)], zm \in [Examples -> Topics(m.KM)] :
      /\ (fl = << >>) \/ (\A t \in Threads : sd[t] = 0)
      /\ InitWith(m, dt, zu, zm, fl, sd)

Next ==
  \/ SampleC
  \/ SampleD
  \/ \E t \in Threads : Begin(t)
  \/ \E t \in Threads : Accum(t)
  \/ \E t \in Threads : Sample(t)
  \/ Return

Spec == Init /\ [][Next]_vars

\* The caller repeats the invocation on identical inputs: c and d are put back
\* to their entry values and the generators are seeded again.
Rerun ==
  /\ pc = "done" /\ run = 1
  /\ prev' = [samp |-> samp, sched |-> sched]
  /\ run' = 2
  /\ pc' = "sample_c"
  /\ samp' = entry
  /\ rngs' = [t \in Threads |-> 0]
  /\ calls' = [ph \in Phases |-> 0]
  /\ touched' = {} /\ sched' = EmptySched /\ sampled' = NoneSampled
  /\ UNCHANGED << inputs, thr, started, counts, log, oob >>

\* Repeated invocation, generators seeded per thread, both phases enabled.
InitRerun ==
  \E m \in Models, dt \in Datas :
    \E zu \in [Examples -> Topics(m.KU)] :
      /\ m.KU = MaxK /\ m.KM = MaxK
      /\ dt.items = [e \in Examples |-> ((e - 1) % NumItems) + 1]
      /\ InitWith(m, dt, zu, [e \in Examples |-> ((e - 1) % m.KM) + 1], << >>,
                  [t \in Threads |-> t + 1])

NextRerun == Next \/ Rerun

SpecRerun == InitRerun /\ [][NextRerun]_vars

\* Inputs that may break the contract: a topic id may be one past its range.
InitMalformed ==
  \E m \in Models, dt \in Datas :
    \E zu \in [Examples -> 1 .. (MaxK + 1)], zm \in [Examples -> 1 .. (MaxK + 1)] :
      /\ m.KU = MaxK /\ m.KM = MaxK
      /\ dt.items = [e \in Examples |-> ((e - 1) % NumItems) + 1]
      /\ InitWith(m, dt, zu, zm, << >>, [t \in Threads |-> 0])

SpecMalformed == InitMalformed /\ [][Next]_vars

\* =================================================================== claims
\* Reference definitions, written from the statements checked below.

\* The two sides of a call: which arrays are primary and which secondary.
Side(ph) ==
  IF ph = "c"
  THEN [primaryId |-> data.users, secondaryId |-> data.items,
        zPrimary |-> zU, zSecondary |-> zM,
        KPrimary |-> model.KM, KSecondary |-> model.KU,
        numPrimary |-> NumUsers, priorMean |-> model.c0,
        primary |-> "c", secondary |-> "d"]
  ELSE [primaryId |-> data.items, secondaryId |-> data.users,
        zPrimary |-> zM, zSecondary |-> zU,
        KPrimary |-> model.KU, KSecondary |-> model.KM,
        numPrimary |-> NumItems, priorMean |-> model.d0,
        primary |-> "d", secondary |-> "c"]

Entities(ph) == 0 .. (Side(ph).numPrimary - 1)

\* offsets[id][topic] of a flat matrix with K columns (id, topic one-based)
Entry(offsets, K, id, topic) == offsets[(id - 1) * K + (topic - 1)]

\* the adjacency list of primary entity p (zero-based), as a set
Adjacency(s, p) == { e \in Examples : s.primaryId[e] = p + 1 }

\* the examples of p whose secondary-side topic is i
Bucket(s, p, i) == { e \in Adjacency(s, p) : s.zSecondary[e] = i }

RECURSIVE SumTo(_, _)
SumTo(f, n) == IF n = 0 THEN VInt(0) ELSE VAdd(SumTo(f, n - 1), f[n])

\* sum over the bucket of resid[e] - secondaryOffsets[secondaryId(e)][zPrimary[e]]
StatSum(s, secondaryOffsets, p, i) ==
  SumTo([e \in Examples |->
           IF e \notin Bucket(s, p, i) THEN VInt(0)
           ELSE IF s.KSecondary > 0
                THEN VSub(Val(resids[e]),
                          Entry(secondaryOffsets, s.KSecondary,
                                s.secondaryId[e], s.zPrimary[e]))
                ELSE Val(resids[e])],
        NumExamples)

StatCount(s, p, i) == Cardinality(Bucket(s, p, i))

\* entry i (one-based) of row p of the primary offsets
Primary(s, p, i) == samp[s.primary][p * s.KPrimary + (i - 1)]

\* thread t has accumulated all the examples of its entity and not yet sampled
Ready(t) ==
  /\ InLoop
  /\ thr[t].pc = "accum"
  /\ thr[t].j = Cardinality(Adjacency(Side(Phase), thr[t].u))

\* row u of the running phase has been sampled
Finished(u) ==
  /\ u \in started
  /\ \A t \in Threads : ~(thr[t].pc = "accum" /\ thr[t].u = u)

ZeroDraws == \A t \in Threads : seeds[t] = 0

\* the flags argument as the caller sees it
FlagsAbsent == sampParams = << >>
UserFlag    == FlagsAbsent \/ sampParams[1]
ItemFlag    == FlagsAbsent \/ sampParams[2]
Wrote(ph, arr) == << ph, arr, "w" >> \in touched

\* C1: the user-side call (writing c) happens iff KM > 0 and the user flag is
\* true or absent, the item-side call (writing d) iff KU > 0 and the item flag
\* is true or absent; each gate decides its own phase only and a phase runs at
\* most once.
C1_Gates ==
  /\ calls["c"] <= 1 /\ calls["d"] <= 1
  /\ (calls["c"] = 1) => (model.KM > 0 /\ UserFlag)
  /\ (calls["d"] = 1) => (model.KU > 0 /\ ItemFlag)
  /\ Wrote("c", "c") => calls["c"] = 1
  /\ Wrote("d", "d") => calls["d"] = 1
  /\ (pc # "sample_c" /\ model.KM > 0 /\ UserFlag) => calls["c"] = 1
  /\ (pc = "done" /\ model.KU > 0 /\ ItemFlag) => calls["d"] = 1
  /\ (pc = "done" /\ calls["c"] = 1) => Wrote("c", "c")
  /\ (pc = "done" /\ calls["d"] = 1) => Wrote("d", "d")

C1_Witness ==
  /\ pc = "done"
  /\ sampParams = << TRUE, FALSE >>
  /\ model.KU > 0 /\ model.KM > 0
  /\ calls["c"] = 1 /\ calls["d"] = 0
  /\ Wrote("c", "c")

\* the posterior mean of entry i of row p, from the statistics of p
PostMean(s, secondaryOffsets, p, i) ==
  LET prec0 == RDiv(ROne, model.sigmaSqd0)
      prec  == RDiv(ROne, model.sigmaSqd)
  IN  VScale(RDiv(ROne, RAdd(prec0, RMul(RInt(StatCount(s, p, i)), prec))),
             VAdd(Val(RMul(s.priorMean, prec0)),
                  VScale(prec, StatSum(s, secondaryOffsets, p, i))))

PostMeans(ph, secondaryOffsets) ==
  LET s == Side(ph)
  IN  [k \in 0 .. (s.numPrimary * s.KPrimary - 1) |->
         PostMean(s, secondaryOffsets, k \div s.KPrimary, (k % s.KPrimary) + 1)]

\* c as the user-side phase of this run leaves it (deviates 0)
UserPhaseC ==
  IF calls["c"] = 1 THEN PostMeans("c", entry["d"]) ELSE entry["c"]

\* C2: the user-side update has given every row of c its new value before the
\* item-side update reads c, and the item-side update subtracts the values the
\* user-side phase of the same run wrote, not those c had on entry; d differs
\* from the d of the item-side update done first for some inputs.
C2_Sequential ==
  /\ (pc \in {"loop_d", "done"} /\ calls["c"] = 1) =>
        \A u \in Entities("c") : sampled["c"][u] = 1
  /\ (pc \in {"sample_c", "loop_c"}) => calls["d"] = 0
  /\ (pc = "loop_d") => \A r \in log : r.arr = "c" => r.kind = "r"
  /\ (ZeroDraws /\ pc \in {"loop_d", "done"}) => samp["c"] = UserPhaseC
  /\ (ZeroDraws /\ pc = "loop_d") =>
        \A t \in Threads :
          Ready(t) =>
            \A i \in 1 .. model.KU :
              Primary(Side("d"), thr[t].u, i)
                = StatSum(Side("d"), UserPhaseC, thr[t].u, i)
  /\ (ZeroDraws /\ pc = "done" /\ calls["d"] = 1) =>
        samp["d"] = PostMeans("d", UserPhaseC)

C2_Witness ==
  /\ pc = "done" /\ ZeroDraws
  /\ calls["c"] = 1 /\ calls["d"] = 1
  /\ model.KU = MaxK /\ model.KM = MaxK
  /\ samp["d"] # PostMeans("d", entry["c"])
  /\ samp["c"] # entry["c"]

\* C3: with sampleUserParams = false c keeps its entry value, with
\* sampleItemParams = false d keeps its entry value; the item-side phase never
\* writes c and the user-side phase never writes d.
C3_Frame ==
  /\ (~FlagsAbsent /\ ~sampParams[1]) => samp["c"] = entry["c"]
  /\ (~FlagsAbsent /\ ~sampParams[2]) => samp["d"] = entry["d"]
  /\ ~Wrote("d", "c")
  /\ ~Wrote("c", "d")
  /\ (pc \in {"sample_c", "loop_c"}) => samp["d"] = entry["d"]
  /\ \A r \in log : (r.kind = "w" /\ r.arr \in Phases) => r.arr = Phase

C3_Witness ==
  /\ pc = "done"
  /\ sampParams = << FALSE, TRUE >>
  /\ model.KM > 0
  /\ calls["d"] = 1
  /\ \A k \in DOMAIN samp["d"] : samp["d"][k] # entry["d"][k]
  /\ samp["c"] = entry["c"]

\* C4: with KM = 0 no entry of c is read or written during the whole run (the
\* user-side phase is skipped and the item-side phase adds resid[e] alone);
\* with KU = 0 no entry of d is read or written during the user-side phase.
C4_ZeroTopics ==
  /\ (model.KM = 0) =>
       /\ calls["c"] = 0
       /\ \A x \in touched : x[2] # "c"
       /\ \A t \in Threads :
            Ready(t) =>
              \A i \in 1 .. model.KU :
                Primary(Side("d"), thr[t].u, i)
                  = SumTo([e \in Examples |->
                             IF e \in Bucket(Side("d"), thr[t].u, i)
                             THEN Val(resids[e]) ELSE VInt(0)], NumExamples)
  /\ (model.KU = 0) => \A x \in touched : x[2] # "d"

C4_Witness ==
  /\ model.KM = 0 /\ model.KU > 0
  /\ pc = "loop_d"
  /\ \E t \in Threads : Ready(t) /\ thr[t].j = NumExamples
  /\ Wrote("d", "d")

\* C5 as stated: two runs on identical inputs and seeds end with identical c
\* and d, however the loop assigns entities to threads and orders them.
C5_AnySchedule ==
  (run = 2 /\ pc = "done") => samp = prev.samp

\* C5 as amended: two runs on identical inputs and seeds end with identical c
\* and d when both give each thread the same entities in the same order,
\* under every interleaving of the threads.
C5_SameSchedule ==
  (run = 2 /\ pc = "done" /\ sched = prev.sched) => samp = prev.samp

C5_Witness ==
  /\ run = 2 /\ pc = "done"
  /\ sched = prev.sched
  /\ samp = prev.samp
  /\ \E t, u \in Threads : t # u /\ sched["c"][t] # << >> /\ sched["c"][u] # << >>
  /\ \E t, u \in Threads : t # u /\ sched["d"][t] # << >> /\ sched["d"][u] # << >>
  /\ \E k \in DOMAIN samp["c"] : samp["c"][k].g # << >>
  /\ \E k \in DOMAIN samp["d"] : samp["d"][k].g # << >>

\* C6: on a topic id outside its range the call fails before the parallel
\* loop, leaves c and d as they were and never writes an offset entry of
\* another entity's row or outside the offset array.
ContractViolated ==
  \E e \in Examples : zU[e] \notin 1 .. model.KU \/ zM[e] \notin 1 .. model.KM

C6_FailFast ==
  ContractViolated =>
    /\ ~oob
    /\ \A r \in log :
         (r.arr = Side(Phase).primary) => r.idx \in Row(r.u, Side(Phase).KPrimary)
    /\ (pc = "done") => samp = entry

\* C7: just before the sampling step, entry i of row p holds the sum over the
\* examples of p whose secondary-side topic is i of resid[e] minus the secondary
\* offset of secondaryId(e) at p's side's topic of e (resid[e] alone when
\* KSecondary = 0), in both calls, whatever the row held on entry.
C7_SufficientStatistic ==
  \A t \in Threads :
    Ready(t) =>
      LET s == Side(Phase)
      IN  \A i \in 1 .. s.KPrimary :
            Primary(s, thr[t].u, i) = StatSum(s, samp[s.secondary], thr[t].u, i)

C7_Witness ==
  /\ pc = "loop_d" /\ calls["c"] = 1
  /\ model.KU = MaxK /\ model.KM = MaxK
  /\ \E t \in Threads :
       /\ Ready(t)
       /\ thr[t].j = NumExamples
       /\ zU[1] # zU[NumExamples]
       /\ zM[1] # zU[1]
       /\ Primary(Side("d"), thr[t].u, zU[1]) # VInt(0)

\* C8: in the parallel loop the update of p touches only row p of the primary
\* offsets and the counts of the thread running it, and only reads the
\* secondary offsets; no location written by one thread is accessed by
\* another; the thread index is a valid slot; and the counts p's sampling step
\* sees are those of p's own adjacency list.
SameLocation(r, q) == r.arr = q.arr /\ r.slot = q.slot /\ r.idx = q.idx

C8_Isolation ==
  LET s == Side(Phase)
  IN  /\ \A r \in log :
            /\ r.arr \in {s.primary, s.secondary, "counts", "rngs"}
            /\ (r.arr = s.primary) =>
                  \E i \in 1 .. s.KPrimary : r.idx = r.u * s.KPrimary + (i - 1)
            /\ (r.arr = s.secondary) => r.kind = "r"
            /\ (r.arr \in {"counts", "rngs"}) => (r.slot = r.th /\ r.slot \in Threads)
      /\ \A r, q \in log :
            (r.th # q.th /\ SameLocation(r, q)) => (r.kind = "r" /\ q.kind = "r")
      /\ \A t \in Threads :
            Ready(t) =>
              \A i \in 1 .. s.KPrimary : counts[t][i - 1] = StatCount(s, thr[t].u, i)

C8_Witness ==
  /\ InLoop
  /\ \E t, u \in Threads :
       /\ t # u
       /\ thr[t].pc = "accum" /\ thr[u].pc = "accum"
       /\ thr[t].j > 0 /\ thr[u].j > 0
       /\ \E r, q \in log :
            r.th = t /\ q.th = u /\ r.arr = "d" /\ q.arr = "d" /\ r.idx = q.idx

\* C9: with every deviate 0, each sampled entry x of row p satisfies
\* x * (invSigmaSqd0 + count*invSigmaSqd) = priorMean*invSigmaSqd0 + sum*invSigmaSqd,
\* is written once, and equals priorMean when count = 0.
C9_PosteriorMean ==
  (InLoop /\ ZeroDraws) =>
    LET s     == Side(Phase)
        prec0 == RDiv(ROne, model.sigmaSqd0)
        prec  == RDiv(ROne, model.sigmaSqd)
    IN  \A p \in Entities(Phase) :
          Finished(p) =>
            /\ sampled[Phase][p] = 1
            /\ \A i \in 1 .. s.KPrimary :
                 LET x   == Primary(s, p, i)
                     n   == StatCount(s, p, i)
                     sum == StatSum(s, samp[s.secondary], p, i)
                 IN  /\ VScale(RAdd(prec0, RMul(RInt(n), prec)), x)
                          = VAdd(Val(RMul(s.priorMean, prec0)), VScale(prec, sum))
                     /\ (n = 0) => (x = Val(s.priorMean))

C9_Witness ==
  /\ pc = "loop_d" /\ ZeroDraws /\ calls["c"] = 1
  /\ \E p, q \in Entities("d") :
       /\ Finished(p) /\ Finished(q)
       /\ StatCount(Side("d"), p, 1) = 1
       /\ StatCount(Side("d"), q, 1) = 0
       /\ Primary(Side("d"), p, 1) # Val(model.d0)
       /\ Primary(Side("d"), q, 1) = Val(model.d0)

\* C10: when the sampling step of p starts, count[i] is the number of examples
\* of p with secondary-side topic i and the counts add up to the length of p's
\* adjacency list, also on a buffer the thread used for an earlier entity.
RECURSIVE CountsTo(_, _)
CountsTo(buf, n) == IF n = 0 THEN 0 ELSE CountsTo(buf, n - 1) + buf[n - 1]

C10_CountsComplete ==
  \A t \in Threads :
    Ready(t) =>
      LET s   == Side(Phase)
          buf == counts[t]
      IN  /\ DOMAIN buf = 0 .. (s.KPrimary - 1)
          /\ \A i \in 1 .. s.KPrimary : buf[i - 1] = StatCount(s, thr[t].u, i)
          /\ CountsTo(buf, s.KPrimary) = Cardinality(Adjacency(s, thr[t].u))

C10_Witness ==
  \E t \in Threads :
    /\ Ready(t)
    /\ Len(sched[Phase][t]) = 2
    /\ thr[t].j > 0
    /\ Adjacency(Side(Phase), sched[Phase][t][1]) # {}
====
